---- MODULE Spec2Model ----
(***************************************************************************)
(* InitialHandshakePacket.Decode and CapabilityFlag.String of              *)
(* cmd/rajath_go_assessment/mysql_decode.go as a state machine.            *)
(*                                                                         *)
(* Bytes are integers 0..255.  A Go uint32 (ConnectionId, CapabilityFlag)  *)
(* is the set of its set bit positions, a subset of 0..31: | is union,     *)
(* & is intersection, << n adds n to every position and drops those that   *)
(* leave the word.  uint16, uint8 and int values are integers.             *)
(*                                                                         *)
(* data holds the bytes conn.Read stored at the front of the buffer; the   *)
(* rest of the 1024-byte buffer keeps the zeros of make([]byte, 1024).     *)
(* payload is the Go slice data[4 : header.Length+4]: length               *)
(* header.Length, capacity BufSize - 4.  An index expression payload[i]    *)
(* needs i < len(payload); a slice expression payload[a:b] needs only      *)
(* a <= b <= cap(payload).  A failed bounds check is a run-time panic.     *)
(***************************************************************************)
EXTENDS Integers, Sequences, FiniteSets, TLC

VARIABLES data, r, position, capabilitiesFlags1, capabilityFlags2, pc, err,
          rv, names

vars == <<data, r, position, capabilitiesFlags1, capabilityFlags2, pc, err,
          rv, names>>

-----------------------------------------------------------------------------
(* Program constants *)

\* data := make([]byte, 1024)
BufSize == 1024

\* if header.Length >= 1024
MaxHeaderLength == 1024

\* Max(13, int(r.AuthPluginDataLen)-8)
MinPart2Len == 13

\* position += 1 + 10
ReservedSkip == 11

-----------------------------------------------------------------------------
(* Bounds of the inputs *)

\* longest server version string of the generated handshakes
MaxVerLen == 2

\* longest auth plugin name of the generated handshakes
MaxNameLen == 2

-----------------------------------------------------------------------------
(* Integer helpers *)

Pow2(n) == 2 ^ n

Bits(n, w) == {i \in 0 .. w - 1 : (n \div Pow2(i)) % 2 = 1}

RECURSIVE Num(_)
Num(bits) ==
    IF bits = {} THEN 0
    ELSE LET i == CHOOSE x \in bits : TRUE
         IN  Pow2(i) + Num(bits \ {i})

Or32(a, b) == a \cup b

And32(a, b) == a \cap b

Shl32(a, n) == {i + n : i \in a} \cap (0 .. 31)

\* uint32(x) of a uint16 x
Uint32Of(x) == Bits(x, 16)

\* binary.LittleEndian.Uint32
LittleEndianUint32(b) ==
    UNION {Shl32(Bits(b[k], 8), 8 * (k - 1)) : k \in 1 .. 4}

\* binary.LittleEndian.Uint16
LittleEndianUint16(b) == b[1] + 256 * b[2]

Max(x, y) == IF x > y THEN x ELSE y

\* bytes.IndexByte: index of the first c in b, -1 if there is none
IndexByte(b, c) ==
    IF \E i \in 1 .. Len(b) : b[i] = c
    THEN (CHOOSE i \in 1 .. Len(b) :
              b[i] = c /\ \A j \in 1 .. i - 1 : b[j] # c) - 1
    ELSE -1

\* strings.Contains
Contains(s, sub) ==
    \E i \in 0 .. Len(s) - Len(sub) : SubSeq(s, i + 1, i + Len(sub)) = sub

Zeros(n) == [i \in 1 .. n |-> 0]

\* the first n elements of s, all of s if it has fewer
Take(s, n) == SubSeq(s, 1, IF Len(s) < n THEN Len(s) ELSE n)

-----------------------------------------------------------------------------
(* CapabilityFlag *)

Flag(iota) == Shl32({0}, iota)

clientPluginAuth == Flag(19)

clientSecureConn == Flag(15)

FlagNames ==
    << "clientLongPassword", "clientFoundRows", "clientLongFlag",
       "clientConnectWithDB", "clientNoSchema", "clientCompress",
       "clientODBC", "clientLocalFiles", "clientIgnoreSpace",
       "clientProtocol41", "clientInteractive", "clientSSL",
       "clientIgnoreSIGPIPE", "clientTransactions", "clientReserved",
       "clientSecureConn", "clientMultiStatements", "clientMultiResults",
       "clientPSMultiResults", "clientPluginAuth", "clientConnectAttrs",
       "clientPluginAuthLenEncClientData", "clientCanHandleExpiredPasswords",
       "clientSessionTrack", "clientDeprecateEOF" >>

\* var flags = map[CapabilityFlag]string{...}
flags == [f \in {Flag(i) : i \in 0 .. Len(FlagNames) - 1} |->
            FlagNames[(CHOOSE i \in 0 .. Len(FlagNames) - 1 : f = Flag(i)) + 1]]

\* r.Has(flag)
Has(v, flag) == And32(v, flag) # {}

\* fmt's %08x of a single-bit value 1 << k: eight hex digits, high first
Hex8(k) == [d \in 1 .. 8 |-> IF (8 - d) = k \div 4 THEN Pow2(k % 4) ELSE 0]

\* fmt's %032b of a single-bit value 1 << k: 32 binary digits, high first
Bin32(k) == [d \in 1 .. 32 |-> IF 32 - d = k THEN 1 ELSE 0]

\* the loop of String: for i := 1; i <= 1<<31; i <<= 1, from 1 << k on
RECURSIVE StringLoop(_, _, _)
StringLoop(v, k, acc) ==
    IF k > 31 THEN acc
    ELSE IF Flag(k) \in DOMAIN flags
         THEN StringLoop(v, k + 1,
                  Append(acc, [hex |-> Hex8(k), bin |-> Bin32(k),
                               name |-> flags[Flag(k)]]))
         ELSE StringLoop(v, k + 1, acc)

\* CapabilityFlag.String: the lines that strings.Join joins with "\n"
String(v) == StringLoop(v, 0, <<>>)

-----------------------------------------------------------------------------
(* The read buffer and the payload slice *)

\* data[i] of the 1024-byte buffer, i in 0 .. BufSize-1
Byte(i) == IF i < Len(data) THEN data[i + 1] ELSE 0

\* the whole buffer, as bytes.IndexByte(data, 0) sees it
Buffer == data \o Zeros(BufSize - Len(data))

PayloadOffset == 4

PayloadLen == r.header[1].Length

PayloadCap == BufSize - PayloadOffset

PayloadAtBuffer(i) == Byte(i)

\* payload[i]
PayloadAt(i) == Byte(PayloadOffset + i)

\* the index expression payload[i] passes its bounds check
IndexOK(i) == 0 <= i /\ i < PayloadLen

\* the slice expression payload[a:b] passes its bounds check
SliceOKLen(a, b) == 0 <= a /\ a <= b /\ b <= PayloadLen

SliceOK(a, b) == 0 <= a /\ a <= b /\ b <= PayloadCap

\* the bytes of payload[a:b]
Slice(a, b) == [k \in 1 .. b - a |-> PayloadAt(a + k - 1)]

\* payload[0:len(payload)], as bytes.IndexByte(payload, 0) sees it
Payload == Slice(0, PayloadLen)

-----------------------------------------------------------------------------
(* Errors Decode returns *)

ErrRead == [msg |-> "conn.Read error", text |-> <<>>]

ErrHeaderSanity == [msg |-> "Header sanity check failed!", text |-> <<>>]

ErrAccessDenied(s) == [msg |-> "errors.New(s)", text |-> s]

ErrVersion9 == [msg |-> "Version 9 is not yet supported!", text |-> <<>>]

ErrUnknownVersion ==
    [msg |-> "Only version 10 is supported. Unknown procotcol version!",
     text |-> <<>>]

ErrFiller == [msg |-> "Unable to decode filler value", text |-> <<>>]

ErrAuthPluginDataLen == [msg |-> "Wrong auth plugin data len", text |-> <<>>]

NoError == [msg |-> "", text |-> <<>>]

\* "is not allowed to connect to this MySQL server"
Needle ==
    << 105,115,32,110,111,116,32,97,108,108,111,119,101,100,32,116,111,32,
       99,111,110,110,101,99,116,32,116,111,32,116,104,105,115,32,77,121,83,
       81,76,32,115,101,114,118,101,114 >>

-----------------------------------------------------------------------------
(* The bytes a server may send: the inputs of conn.Read *)

PacketHeaderBytes(len, seq) ==
    << len % 256, (len \div 256) % 256, (len \div 65536) % 256, seq >>

Packet(len, seq, body) == PacketHeaderBytes(len, seq) \o body

VerBytes(k) == [i \in 1 .. k |-> 55 + i]

NameBytes(k) == [i \in 1 .. k |-> 96 + (i % 26)]

Salt1 == << 1, 2, 3, 4, 5, 6, 7, 8 >>

Salt2(n) == [i \in 1 .. n |-> IF i = n THEN 0 ELSE 64 + (i % 32)]

LE16Bytes(x) == << x % 256, x \div 256 >>

\* a version-10 handshake payload laid out as the server writes it
Handshake(sv, cid, filler, lo, cs, st, hi, alen, name, term) ==
    LET len == IF 3 \in Bits(hi, 16) THEN alen ELSE 0
        p2  == IF 15 \in Bits(lo, 16) THEN Max(MinPart2Len, len - 8) ELSE 0
    IN  << 10 >> \o sv \o << 0 >> \o cid \o Salt1 \o << filler >>
          \o LE16Bytes(lo) \o << cs >> \o LE16Bytes(st) \o LE16Bytes(hi)
          \o << alen >> \o Zeros(10) \o Salt2(p2) \o name \o term

CapHalves == {0, 65535, 32768, 32767, 8, 65527}

AuthLens == {0, 21, 30}

\* handshakes of the declared length, every capability half combined
HandshakeInputs ==
    {Packet(Len(p), 0, p) :
        p \in {Handshake(VerBytes(v), << 25, 0, 0, 0 >>, 0, lo, 255, 2, hi,
                         alen, NameBytes(n), term) :
                 v \in 0 .. MaxVerLen, lo \in {0, 65535, 32768, 32767},
                 hi \in {0, 65535, 8, 65527}, alen \in AuthLens,
                 n \in 0 .. MaxNameLen, term \in {<< >>, << 0 >>}}}

\* handshakes whose fixed fields vary
FieldInputs ==
    {Packet(Len(p), seq, p) :
        p \in {Handshake(VerBytes(1), cid, filler, 65535, cs, st, 65535, 21,
                         NameBytes(1), << 0 >>) :
                 cid \in {<< 25, 0, 0, 0 >>, << 1, 2, 3, 255 >>},
                 filler \in {0, 1, 255}, cs \in {0, 255},
                 st \in {2, 513, 65535}},
        seq \in {0, 7}}

TruncationBases ==
    {Handshake(VerBytes(2), << 25, 0, 0, 0 >>, 0, lo, 255, 2, hi, 21,
               NameBytes(2), << 0 >>) : lo \in {0, 32768}, hi \in {0, 8}}

\* handshakes whose header declares fewer bytes than the handshake has;
\* the bytes after the declared length are either in the buffer or not sent
TruncatedInputs ==
    UNION {{Packet(l, 0, p), Packet(l, 0, SubSeq(p, 1, l))} :
             <<p, l>> \in {<<q, k>> \in TruncationBases \X (0 .. 64) :
                              k <= Len(q)}}

HostPrefix == << 72, 111, 115, 116, 32 >>

ErrorBodies ==
    {<< >>, << 106, 4 >> \o HostPrefix \o Needle, << 0 >> \o Needle, Needle,
     SubSeq(Needle, 1, Len(Needle) - 1) \o << 0 >>}

\* packets whose first payload byte is not 10, of every declared length
ErrorInputs ==
    UNION {{Packet(l, 0, << ver >> \o body) : l \in 0 .. Len(body) + 1} :
             <<ver, body>> \in {9, 11, 255} \X ErrorBodies}

LongLengths == {256, 300, 1020, 1021, 1023}

\* packets whose declared length needs the second length byte
LongInputs ==
    {Take(Packet(l, 0, << ver, 106 >> \o Needle \o NameBytes(l)), BufSize) :
        l \in LongLengths, ver \in {9, 10, 255}}
    \cup
    {Take(Packet(l, 0,
              Handshake(VerBytes(1), << 25, 0, 0, 0 >>, 0, 65535, 255, 2,
                        65535, 21, NameBytes(l - 47 - Len(term)), term)),
          BufSize) :
        l \in LongLengths, term \in {<< >>, << 0 >>}}

\* headers that fail the sanity check, and reads shorter than a header
HeaderInputs ==
    {Packet(l, seq, << 10, 0 >>) :
        l \in {1024, 1025, 65536, 16777215}, seq \in {0, 7}}
    \cup {<< >>, << 5, 0, 0 >>, << 0, 0, 0, 0 >>}

Inputs ==
    HandshakeInputs \cup FieldInputs \cup TruncatedInputs \cup ErrorInputs
        \cup LongInputs \cup HeaderInputs

FlagValues ==
    {{}, 0 .. 31, 0 .. 24, 25 .. 31, clientPluginAuth, clientSecureConn}
        \cup {Flag(i) : i \in 0 .. 31}
        \cup {Or32(Flag(i), Flag(i + 7)) : i \in 0 .. 24}

-----------------------------------------------------------------------------
(* State *)

\* &InitialHandshakePacket{}
ZeroRecord ==
    [ProtocolVersion |-> 0, ServerVersion |-> << >>, ConnectionId |-> {},
     AuthPluginData |-> << >>, Filler |-> 0, CapabilitiesFlags |-> {},
     CharacterSet |-> 0, StatusFlags |-> 0, AuthPluginDataLen |-> 0,
     AuthPluginName |-> << >>, header |-> << >>]

Init ==
    /\ data = << >>
    /\ r = ZeroRecord
    /\ position = 0
    /\ capabilitiesFlags1 = << >>
    /\ capabilityFlags2 = << >>
    /\ pc = "read"
    /\ err = NoError
    /\ rv = {}
    /\ names = << >>

locals == <<position, capabilitiesFlags1, capabilityFlags2>>

flagVars == <<rv, names>>

Panic ==
    /\ pc' = "panic"
    /\ UNCHANGED <<data, r, locals, err, flagVars>>

\* return err, the record as the statements before the return left it
Return(e, rec) ==
    /\ pc' = "error"
    /\ err' = e
    /\ r' = rec
    /\ UNCHANGED <<data, locals, flagVars>>

\* the next statement block, with the record and the cursor as given
Goto(label, rec, pos) ==
    /\ pc' = label
    /\ r' = rec
    /\ position' = pos
    /\ UNCHANGED <<data, capabilitiesFlags1, capabilityFlags2, err, flagVars>>

-----------------------------------------------------------------------------
(* Decode *)

\* _, err := conn.Read(data)
Read ==
    /\ pc = "read"
    /\ \/ /\ pc' = "error"
          /\ err' = ErrRead
          /\ UNCHANGED <<data, r, locals, flagVars>>
       \/ \E in \in Inputs :
            /\ data' = Take(in, BufSize)
            /\ pc' = "header"
            /\ UNCHANGED <<r, locals, err, flagVars>>

\* ln := []byte{data[0], data[1], data[2], 0x00}; binary.LittleEndian.Uint32(ln)
HeaderLength == Num(LittleEndianUint32(<< Byte(0), Byte(1), Byte(2), 0 >>))

HeaderSanityOffByOne == HeaderLength > MaxHeaderLength

\* if header.Length >= 1024
HeaderSanityFails == HeaderLength >= MaxHeaderLength

\* the header parse, the sanity check and payload := data[4 : header.Length+4]
ParseHeader ==
    /\ pc = "header"
    /\ LET header == [Length |-> HeaderLength, SequenceId |-> Byte(3)]
           rec == [r EXCEPT !.header = << header >>]
       IN  IF HeaderSanityFails
           THEN Return(ErrHeaderSanity, r)
           ELSE IF header.Length + PayloadOffset > BufSize
           THEN /\ pc' = "panic"
                /\ r' = rec
                /\ UNCHANGED <<data, locals, err, flagVars>>
           ELSE Goto("version", rec, 0)

\* termIndex := bytes.IndexByte(data, byte(0x00)) + 1
TermIndex == IndexByte(Buffer, 0) + 1

\* r.ProtocolVersion = payload[0], and the error classifier of a version
\* other than 10
ReadProtocolVersion ==
    /\ pc = "version"
    /\ IF ~IndexOK(0)
       THEN Panic
       ELSE LET rec == [r EXCEPT !.ProtocolVersion = PayloadAt(0)]
            IN  IF rec.ProtocolVersion # 10
                THEN IF ~SliceOK(TermIndex, PayloadLen)
                     THEN /\ pc' = "panic"
                          /\ r' = rec
                          /\ UNCHANGED <<data, locals, err, flagVars>>
                     ELSE LET s == Slice(TermIndex, PayloadLen)
                          IN  IF Contains(s, Needle)
                              THEN Return(ErrAccessDenied(s), rec)
                              ELSE IF rec.ProtocolVersion = 9
                              THEN Return(ErrVersion9, rec)
                              ELSE Return(ErrUnknownVersion, rec)
                ELSE Goto("serverVersion", rec, position + 1)

AfterTerminatorKeepsCursor(index) == index

\* position = index + 1
AfterTerminator(index) == index + 1

\* index := bytes.IndexByte(payload, 0); r.ServerVersion = payload[position:index]
ReadServerVersion ==
    /\ pc = "serverVersion"
    /\ LET index == IndexByte(Payload, 0)
       IN  IF ~SliceOK(position, index)
           THEN Panic
           ELSE Goto("connectionId",
                     [r EXCEPT !.ServerVersion = Slice(position, index)],
                     AfterTerminator(index))

\* connectionId := payload[position : position+4]
ReadConnectionId ==
    /\ pc = "connectionId"
    /\ IF ~SliceOK(position, position + 4)
       THEN Panic
       ELSE Goto("authPluginDataPart1",
                 [r EXCEPT !.ConnectionId =
                      LittleEndianUint32(Slice(position, position + 4))],
                 position + 4)

\* r.AuthPluginData = make([]byte, 8); copy(..., payload[position:position+8])
ReadAuthPluginDataPart1 ==
    /\ pc = "authPluginDataPart1"
    /\ IF ~SliceOK(position, position + 8)
       THEN /\ pc' = "panic"
            /\ r' = [r EXCEPT !.AuthPluginData = Zeros(8)]
            /\ UNCHANGED <<data, locals, err, flagVars>>
       ELSE Goto("filler",
                 [r EXCEPT !.AuthPluginData = Slice(position, position + 8)],
                 position + 8)

FillerUnchecked(b) == FALSE

\* if r.Filler != 0x00
FillerInvalid(b) == b # 0

\* r.Filler = payload[position]
ReadFiller ==
    /\ pc = "filler"
    /\ IF ~IndexOK(position)
       THEN Panic
       ELSE LET rec == [r EXCEPT !.Filler = PayloadAt(position)]
            IN  IF FillerInvalid(rec.Filler)
                THEN Return(ErrFiller, rec)
                ELSE Goto("capabilityFlagsLower", rec, position + 1)

\* capabilitiesFlags1 := payload[position : position+2]
ReadCapabilityFlagsLower ==
    /\ pc = "capabilityFlagsLower"
    /\ IF ~SliceOK(position, position + 2)
       THEN Panic
       ELSE /\ capabilitiesFlags1' = Slice(position, position + 2)
            /\ position' = position + 2
            /\ pc' = "characterSet"
            /\ UNCHANGED <<data, r, capabilityFlags2, err, flagVars>>

\* r.CharacterSet = payload[position]
ReadCharacterSet ==
    /\ pc = "characterSet"
    /\ IF ~IndexOK(position)
       THEN Panic
       ELSE Goto("statusFlags",
                 [r EXCEPT !.CharacterSet = PayloadAt(position)],
                 position + 1)

\* r.StatusFlags = binary.LittleEndian.Uint16(payload[position : position+2])
ReadStatusFlags ==
    /\ pc = "statusFlags"
    /\ IF ~SliceOK(position, position + 2)
       THEN Panic
       ELSE Goto("capabilityFlagsUpper",
                 [r EXCEPT !.StatusFlags =
                      LittleEndianUint16(Slice(position, position + 2))],
                 position + 2)

CombineCapabilitiesShift8(capLow, capHi) ==
    Or32(Uint32Of(capLow), Shl32(Uint32Of(capHi), 8))

\* cap := uint32(capLow) | uint32(capHi)<<16
CombineCapabilities(capLow, capHi) ==
    Or32(Uint32Of(capLow), Shl32(Uint32Of(capHi), 16))

\* capabilityFlags2 := payload[position : position+2], and the reconstruction
\* of r.CapabilitiesFlags from the two halves
ReadCapabilityFlagsUpper ==
    /\ pc = "capabilityFlagsUpper"
    /\ IF ~SliceOK(position, position + 2)
       THEN Panic
       ELSE LET hi == Slice(position, position + 2)
                capLow == LittleEndianUint16(capabilitiesFlags1)
                capHi == LittleEndianUint16(hi)
            IN  /\ capabilityFlags2' = hi
                /\ position' = position + 2
                /\ r' = [r EXCEPT !.CapabilitiesFlags =
                                      CombineCapabilities(capLow, capHi)]
                /\ pc' = "authPluginDataLen"
                /\ UNCHANGED <<data, capabilitiesFlags1, err, flagVars>>

\* if r.CapabilitiesFlags&clientPluginAuth != 0 { r.AuthPluginDataLen = ... }
ReadAuthPluginDataLen ==
    /\ pc = "authPluginDataLen"
    /\ IF And32(r.CapabilitiesFlags, clientPluginAuth) # {}
       THEN IF ~IndexOK(position)
            THEN Panic
            ELSE LET rec == [r EXCEPT !.AuthPluginDataLen = PayloadAt(position)]
                 IN  IF rec.AuthPluginDataLen = 0
                     THEN Return(ErrAuthPluginDataLen, rec)
                     ELSE Goto("reserved", rec, position)
       ELSE Goto("reserved", r, position)

\* position += 1 + 10
SkipReserved ==
    /\ pc = "reserved"
    /\ Goto("authPluginDataPart2", r, position + ReservedSkip)

\* if r.CapabilitiesFlags&clientSecureConn != 0 { ... append part 2 ... }
ReadAuthPluginDataPart2 ==
    /\ pc = "authPluginDataPart2"
    /\ IF And32(r.CapabilitiesFlags, clientSecureConn) # {}
       THEN LET end == position + Max(MinPart2Len, r.AuthPluginDataLen - 8)
            IN  IF ~SliceOK(position, end)
                THEN Panic
                ELSE Goto("authPluginName",
                          [r EXCEPT !.AuthPluginData =
                               r.AuthPluginData \o Slice(position, end)],
                          end)
       ELSE Goto("authPluginName", r, position)

PluginNameWholeRest(rest, index) == rest

\* payload[position : position+index] if index != -1, else payload[position:]
PluginName(rest, index) ==
    IF index # -1 THEN SubSeq(rest, 1, index) ELSE rest

\* index = bytes.IndexByte(payload[position:], 0), and r.AuthPluginName
ReadAuthPluginName ==
    /\ pc = "authPluginName"
    /\ IF ~SliceOKLen(position, PayloadLen)
       THEN Panic
       ELSE LET rest == Slice(position, PayloadLen)
                index == IndexByte(rest, 0)
            IN  Goto("done",
                     [r EXCEPT !.AuthPluginName = PluginName(rest, index)],
                     position)

Next ==
    \/ Read
    \/ ParseHeader
    \/ ReadProtocolVersion
    \/ ReadServerVersion
    \/ ReadConnectionId
    \/ ReadAuthPluginDataPart1
    \/ ReadFiller
    \/ ReadCapabilityFlagsLower
    \/ ReadCharacterSet
    \/ ReadStatusFlags
    \/ ReadCapabilityFlagsUpper
    \/ ReadAuthPluginDataLen
    \/ SkipReserved
    \/ ReadAuthPluginDataPart2
    \/ ReadAuthPluginName

Spec == Init /\ [][Next]_vars

-----------------------------------------------------------------------------
(* CapabilityFlag.String applied to a value *)

InitString ==
    /\ data = << >>
    /\ r = ZeroRecord
    /\ position = 0
    /\ capabilitiesFlags1 = << >>
    /\ capabilityFlags2 = << >>
    /\ pc = "string"
    /\ err = NoError
    /\ rv \in FlagValues
    /\ names = << >>

CallString ==
    /\ pc = "string"
    /\ names' = String(rv)
    /\ pc' = "stringDone"
    /\ UNCHANGED <<data, r, locals, err, rv>>

NextString == CallString

SpecString == InitString /\ [][NextString]_vars

-----------------------------------------------------------------------------
(* The wire format of the handshake, read off the buffer: what the claims  *)
(* compare the decoded record with.                                        *)

Terminal == {"done", "error", "panic"}

\* the declared payload length: the 3-byte little-endian length of the header
WireLen == Byte(0) + 256 * Byte(1) + 65536 * Byte(2)

\* payload byte i: the byte i places after the 4-byte header
WireAt(i) == Byte(4 + i)

WireBytes(a, b) == [k \in 1 .. b - a |-> WireAt(a + k - 1)]

WireBit(b, i) == (b \div Pow2(i)) % 2 = 1

\* the server version has its terminator inside the declared payload
WireHasVerEnd == \E i \in 1 .. WireLen - 1 : WireAt(i) = 0

WireVerEnd ==
    CHOOSE i \in 1 .. WireLen - 1 :
        WireAt(i) = 0 /\ \A j \in 1 .. i - 1 : WireAt(j) # 0

WireConnId == WireVerEnd + 1

WireSalt1 == WireConnId + 4

WireFiller == WireSalt1 + 8

WireCapLow == WireFiller + 1

WireCharSet == WireCapLow + 2

WireStatus == WireCharSet + 1

WireCapHigh == WireStatus + 2

WireAuthLen == WireCapHigh + 2

WirePart2 == WireAuthLen + 1 + 10

WireLow == WireAt(WireCapLow) + 256 * WireAt(WireCapLow + 1)

WireHigh == WireAt(WireCapHigh) + 256 * WireAt(WireCapHigh + 1)

\* PLUGIN_AUTH is bit 19: bit 3 of the upper half
WirePluginAuth == WireBit(WireHigh, 3)

\* SECURE_CONNECTION is bit 15: bit 15 of the lower half
WireSecureConn == WireBit(WireLow, 15)

WireAuthLenValue == IF WirePluginAuth THEN WireAt(WireAuthLen) ELSE 0

WirePart2Len ==
    IF ~WireSecureConn THEN 0
    ELSE IF WireAuthLenValue - 8 > 13 THEN WireAuthLenValue - 8 ELSE 13

WireName == WirePart2 + WirePart2Len

WireHasNameEnd == \E i \in WireName .. WireLen - 1 : WireAt(i) = 0

WireNameEnd ==
    CHOOSE i \in WireName .. WireLen - 1 :
        WireAt(i) = 0 /\ \A j \in WireName .. i - 1 : WireAt(j) # 0

\* a version-10 handshake whose header is followed by its whole payload
WireVersion10 ==
    /\ WireLen >= 1
    /\ WireLen + 4 <= BufSize
    /\ WireAt(0) = 10

\* a well-formed version-10 handshake: terminated server version, zero
\* filler, a nonzero length byte under PLUGIN_AUTH, every field inside the
\* declared payload, terminated plugin name
WireWellFormed ==
    /\ WireVersion10
    /\ WireHasVerEnd
    /\ WireName <= WireLen
    /\ WireAt(WireFiller) = 0
    /\ WirePluginAuth => WireAt(WireAuthLen) # 0
    /\ WireHasNameEnd

\* the bits of a uint32 are those of the four bytes at payload offset a,
\* lowest byte first
IsLittleEndian32(v, a) ==
    \A k \in 0 .. 3 : \A i \in 0 .. 7 :
        (8 * k + i \in v) <=> WireBit(WireAt(a + k), i)

-----------------------------------------------------------------------------
(* Claims *)

FixedWidth ==
    [connectionId |-> 4, authPluginDataPart1 |-> 8, filler |-> 1,
     capabilityFlagsLower |-> 2, characterSet |-> 1, statusFlags |-> 2,
     capabilityFlagsUpper |-> 2,
     authPluginDataLen |->
         IF Has(r.CapabilitiesFlags, clientPluginAuth) THEN 1 ELSE 0,
     reserved |-> 11,
     authPluginDataPart2 |->
         IF ~Has(r.CapabilitiesFlags, clientSecureConn) THEN 0
         ELSE IF r.AuthPluginDataLen - 8 > 13 THEN r.AuthPluginDataLen - 8
         ELSE 13]

\* C2: when the next fixed-width field of a version-10 payload would extend
\* past the declared payload length, Decode returns a ShortBuffer error: it
\* neither panics nor goes on with bytes from beyond the payload.
C2_TruncationGivesShortBuffer ==
    [][(/\ pc \in DOMAIN FixedWidth
        /\ position + FixedWidth[pc] > PayloadLen)
         => (pc' = "error" /\ err'.msg = "ShortBuffer")]_vars

C4_CursorWithinPayload ==
    r.header # << >> => position <= PayloadLen

\* C5: a packet whose protocol version is not 10, of any declared length
\* from 1 to 1023, makes Decode return an error: AccessDenied with the text
\* after the terminator if that text contains the access-denied message,
\* else the version-9 error for version 9, else the unknown-version error;
\* the classifier fails in no other way.
C5_ClassifierAlwaysReturnsError ==
    (/\ pc \in Terminal
     /\ err # ErrRead
     /\ WireLen \in 1 .. 1023
     /\ WireAt(0) # 10)
      => LET text == WireBytes(TermIndex, WireLen)
         IN  /\ pc = "error"
             /\ err = IF Contains(text, Needle) THEN ErrAccessDenied(text)
                      ELSE IF WireAt(0) = 9 THEN ErrVersion9
                      ELSE ErrUnknownVersion

\* the bit position a line of String stands for
LineBit(line) == CHOOSE k \in 0 .. 31 : line.bin[32 - k] = 1

\* C6: String emits one line per bit position, ascending, exactly for the
\* bits that are set in the value and named; 0 yields empty text.
C6_StringListsSetNamedBits ==
    pc = "stringDone" =>
        /\ {LineBit(names[i]) : i \in 1 .. Len(names)}
               = {k \in rv : Flag(k) \in DOMAIN flags}
        /\ \A i \in 1 .. Len(names) - 1 :
               LineBit(names[i]) < LineBit(names[i + 1])
        /\ rv = {} => names = << >>

\* C7: a header length of 1024 or more makes Decode return the header
\* sanity error with the record untouched and no payload byte consumed; a
\* length below 1024 is stored as b0 + 256*b1 + 65536*b2 together with the
\* 4th byte as sequenceId.
C7_HeaderParse ==
    (pc \notin {"read", "header"} /\ err # ErrRead) =>
        IF WireLen >= 1024
        THEN /\ pc = "error"
             /\ err = ErrHeaderSanity
             /\ r = ZeroRecord
             /\ position = 0
        ELSE /\ err # ErrHeaderSanity
             /\ r.header = << [Length |-> WireLen, SequenceId |-> Byte(3)] >>

C7_Witness ==
    /\ pc = "error"
    /\ err = ErrHeaderSanity
    /\ WireLen = 1024
    /\ Byte(3) = 7

\* the plugin name the wire format gives from cursor c: the payload bytes
\* from c up to the first 0x00 at or after c, all remaining payload bytes
\* if there is none
IsWirePluginName(name, c) ==
    /\ Len(name) <= WireLen - c
    /\ name = WireBytes(c, c + Len(name))
    /\ \A k \in 1 .. Len(name) : name[k] # 0
    /\ c + Len(name) < WireLen => WireAt(c + Len(name)) = 0

\* C8: from a cursor inside the declared payload the plugin-name step never
\* fails: Decode succeeds, and authPluginName is the payload bytes from the
\* cursor up to the first 0x00 in the remaining payload, or all remaining
\* payload bytes (possibly none) when there is no 0x00.
C8_PluginNameStep ==
    [][(pc = "authPluginName" /\ position <= PayloadLen)
         => /\ pc' = "done"
            /\ err' = NoError
            /\ IsWirePluginName(r'.AuthPluginName, position)]_vars

C8_Witness ==
    /\ pc = "done"
    /\ Len(r.AuthPluginName) = 2
    /\ position + 2 = PayloadLen
    /\ \A i \in position .. PayloadLen - 1 : WireAt(i) # 0

\* C9: capabilityFlags is lo | (hi << 16): its bits 0..15 are those of the
\* little-endian half read before characterSet and statusFlags, its bits
\* 16..31 those of the half read after them, so PLUGIN_AUTH is bit 3 of the
\* upper half and SECURE_CONNECTION bit 15 of the lower half.
C9_CapabilityFlagsCombine ==
    capabilityFlags2 # << >> =>
        /\ capabilitiesFlags1 = WireBytes(WireCapLow, WireCapLow + 2)
        /\ capabilityFlags2 = WireBytes(WireCapHigh, WireCapHigh + 2)
        /\ WireCapLow + 2 = WireCharSet
        /\ WireCapHigh = WireStatus + 2
        /\ \A i \in 0 .. 15 :
               /\ (i \in r.CapabilitiesFlags) <=> WireBit(WireLow, i)
               /\ (i + 16 \in r.CapabilitiesFlags) <=> WireBit(WireHigh, i)
        /\ Has(r.CapabilitiesFlags, clientPluginAuth) <=> WireBit(WireHigh, 3)
        /\ Has(r.CapabilitiesFlags, clientSecureConn) <=> WireBit(WireLow, 15)

C9_Witness ==
    /\ pc = "done"
    /\ WireLow = 32767
    /\ WireHigh = 65535
    /\ r.CapabilitiesFlags = (0 .. 31) \ {15}

\* C10: a record Decode returns with success has filler 0 and, with
\* PLUGIN_AUTH set, a nonzero authPluginDataLen; a nonzero filler byte ends
\* the decode with the filler error and a zero length byte under PLUGIN_AUTH
\* with the auth-plugin-data-length error.
C10_FillerAndAuthLenChecked ==
    /\ pc = "done" =>
          /\ r.Filler = 0
          /\ WireAt(WireFiller) = 0
          /\ Has(r.CapabilitiesFlags, clientPluginAuth) =>
                 (r.AuthPluginDataLen # 0 /\ WireAt(WireAuthLen) # 0)
    /\ (pc \in Terminal /\ WireVersion10 /\ WireHasVerEnd) =>
          /\ (WireFiller < WireLen /\ WireAt(WireFiller) # 0) =>
                 (pc = "error" /\ err = ErrFiller)
          /\ (/\ WireAuthLen < WireLen
              /\ WireAt(WireFiller) = 0
              /\ WirePluginAuth
              /\ WireAt(WireAuthLen) = 0) =>
                 (pc = "error" /\ err = ErrAuthPluginDataLen)

C10_Witness ==
    /\ pc = "error"
    /\ err = ErrAuthPluginDataLen
    /\ WireAt(WireFiller) = 0
    /\ WirePluginAuth
    /\ WireAt(WireAuthLen) = 0

====
